---- MODULE Spec2Model ----
(***************************************************************************)
(* A model of astray's celestial bodies: SolarSystem (generation, the      *)
(* aggregate queries, orbit updates) and the lazily initialised star name  *)
(* table.                                                                  *)
(*                                                                         *)
(* Numbers.  f32 quantities are fixed-point integers:                      *)
(*   - spacing_factor and the sampled planet count are in units of         *)
(*     1/Scale (Scale = 2: halves);                                        *)
(*   - orbit radii are in units of 1/Unit, Unit = Scale^MaxPlanets, so     *)
(*     that compounding the spacing factor MaxPlanets times is exact;      *)
(*   - angles are in units of 2*pi/TwoPi.                                  *)
(***************************************************************************)
EXTENDS Integers, Sequences, FiniteSets, TLC

\* ---------------------------------------------------------------- bounds
MaxPlanets == 3
Scale == 2
TwoPi == 4
NThreads == 2
MaxFileLen == 2

RECURSIVE Pow(_, _)
Pow(b, e) == IF e = 0 THEN 1 ELSE b * Pow(b, e - 1)

Unit == Pow(Scale, MaxPlanets)

\* ------------------------------------------------------- sampled inputs
\* Normal(0.4, 0.2): any real, in particular zero and negative values.
SpacingFactors == (0 - 1)..Scale
\* Normal(5.0, 1.0): any real; capped at MaxPlanets + 1/Scale.
PlanetCountSamples == (0 - Scale - 1)..(MaxPlanets * Scale + 1)
StarMasses == 1..2
StarRadii == 1..2
PlanetBodies == {[mass |-> 1, radius |-> 1], [mass |-> 2, radius |-> 3]}
StartPhases == {0, TwoPi - 1}
\* The draws of one Planet::generate call that are explored.
PlanetDraws ==
    {d \in [body : PlanetBodies, phase : StartPhases] :
        d.body.mass = 1 \/ d.phase = 0}

VARIABLES
    pc,              \* position in SolarSystem::generate / lifetime of the system
    star,            \* SolarSystem.star
    planets,         \* SolarSystem.planets
    spacing_factor,  \* SolarSystem.spacing_factor
    n_sample,        \* the f32 drawn for the planet count
    n_planets,       \* the local n_planets: i32
    i,               \* the loop counter of `for _ in 0..n_planets`
    hosts,           \* the hosts handed to Planet::generate, in call order
    ret,             \* the last call on the finished system and what it returned
    panicked,        \* a call on the system panicked
    cell,            \* STAR_NAMES: state of the Lazy's OnceCell
    init_fn,         \* STAR_NAMES: the Lazy still holds its init closure
    table,           \* STAR_NAMES: the value of the cell
    tpc,             \* per thread: position in the access to STAR_NAMES
    seen,            \* per thread: the tables it has observed
    init_runs        \* how often the init closure has been entered

sysVars == <<pc, star, planets, spacing_factor, n_sample, n_planets, i, hosts, ret, panicked>>
nameVars == <<cell, init_fn, table, tpc, seen, init_runs>>
vars == <<pc, star, planets, spacing_factor, n_sample, n_planets, i, hosts, ret, panicked,
          cell, init_fn, table, tpc, seen, init_runs>>

\* ------------------------------------------------- astrophysics helpers
calculate_density_from_mass_and_radius(mass, radius) == mass \div Pow(radius, 3)

calculate_system_inner_limit_from_star_radius_and_density(radius, density) ==
    Unit * radius * (1 + density)

calculate_nth_orbit(first_orbit_radius, spacing, n) ==
    (first_orbit_radius * Pow(Scale + spacing, n)) \div Pow(Scale, n)

calculate_orbit_period(orbit_radius, host_mass) == 1 + (orbit_radius \div Unit) \div host_mass

calculate_angular_speed(orbit_period) == TwoPi \div orbit_period

\* ------------------------------------------------------------ SolarSystem
System == [star |-> star, planets |-> planets, spacing_factor |-> spacing_factor]

get_n_planets(sys) == Len(sys.planets)

get_inner_limit(sys) ==
    calculate_system_inner_limit_from_star_radius_and_density(
        sys.star.radius,
        calculate_density_from_mass_and_radius(sys.star.mass, sys.star.radius))

get_nth_orbit_radius_inner_base(sys, n) ==
    calculate_nth_orbit(
        IF Len(sys.planets) > 0 THEN sys.planets[1].orbit_radius ELSE get_inner_limit(sys),
        sys.spacing_factor, n)

get_nth_orbit_radius_last_base(sys, n) ==
    IF Len(sys.planets) > 0
    THEN calculate_nth_orbit(sys.planets[Len(sys.planets)].orbit_radius, sys.spacing_factor, n)
    ELSE 0

get_nth_orbit_radius(sys, n) ==
    IF Len(sys.planets) > 0
    THEN calculate_nth_orbit(sys.planets[1].orbit_radius, sys.spacing_factor, n)
    ELSE 0

RECURSIVE fold_mass(_, _, _)
fold_mass(r, ps, k) == IF k > Len(ps) THEN r ELSE fold_mass(r + ps[k].mass, ps, k + 1)

get_mass_skip_first(sys) == fold_mass(sys.star.mass, sys.planets, 2)

get_mass(sys) == fold_mass(sys.star.mass, sys.planets, 1)

\* planets.last(): None on an empty vector, and unwrap() of None panics.
last_is_some(sys) == Len(sys.planets) > 0

get_radius(sys) == sys.planets[Len(sys.planets)].orbit_radius

\* --------------------------------------------------------------- Planet
normalize_angle_late(a) == IF a > TwoPi THEN a - TwoPi ELSE a

normalize_angle(a) == a % TwoPi

Planet_generate(host, body, phase) ==
    LET n == Len(host.planets)
        orbit_radius == IF n = 0 THEN get_inner_limit(host)
                                 ELSE get_nth_orbit_radius(host, n)
        period == calculate_orbit_period(orbit_radius, host.star.mass)
    IN [mass |-> body.mass, radius |-> body.radius,
        orbit_radius |-> orbit_radius,
        orbit_period |-> period,
        orbit_position |-> normalize_angle(phase),
        angular_speed |-> calculate_angular_speed(period)]

update_orbit_position_drift(p) ==
    [p EXCEPT !.orbit_position = normalize_angle(p.orbit_position + p.angular_speed),
              !.orbit_radius = p.orbit_radius + p.angular_speed]

update_orbit_position(p) ==
    [p EXCEPT !.orbit_position = normalize_angle(p.orbit_position + p.angular_speed)]

\* ------------------------------------------------ SolarSystem::generate
\* `as i32` on an f32: truncation toward zero.
as_i32_round(x) == (2 * x + Scale) \div (2 * Scale)

as_i32(x) == IF x >= 0 THEN x \div Scale ELSE 0 - ((0 - x) \div Scale)

\* #[derive(Clone)]: a field-wise copy.
clone(sys) == [star |-> sys.star, planets |-> sys.planets,
               spacing_factor |-> sys.spacing_factor]

push_front(ps, p) == <<p>> \o ps

push(ps, p) == Append(ps, p)

NoCall == [op |-> "none", arg |-> 0, val |-> 0]

GenerateBegin ==
    /\ pc = "start"
    /\ \E s \in SpacingFactors, m \in StarMasses, r \in StarRadii, c \in PlanetCountSamples :
        /\ spacing_factor' = s
        /\ star' = [mass |-> m, radius |-> r]
        /\ n_sample' = c
        /\ n_planets' = as_i32(c)
    /\ planets' = <<>>
    /\ i' = 0
    /\ pc' = "loop"
    /\ UNCHANGED <<hosts, ret, panicked>>
    /\ UNCHANGED nameVars

GenerateLoop ==
    /\ pc = "loop"
    /\ i < n_planets
    /\ \E d \in PlanetDraws :
        LET host == clone(System)
        IN /\ planets' = push(planets, Planet_generate(host, d.body, d.phase))
           /\ hosts' = Append(hosts, host)
    /\ i' = i + 1
    /\ UNCHANGED <<pc, star, spacing_factor, n_sample, n_planets, ret, panicked>>
    /\ UNCHANGED nameVars

GenerateEnd ==
    /\ pc = "loop"
    /\ ~(i < n_planets)
    /\ pc' = "done"
    /\ UNCHANGED <<star, planets, spacing_factor, n_sample, n_planets, i, hosts, ret, panicked>>
    /\ UNCHANGED nameVars

Generate == GenerateBegin \/ GenerateLoop \/ GenerateEnd

\* ----------------------------------------- calls on the generated system
Returns(op, arg, val) ==
    /\ ret' = [op |-> op, arg |-> arg, val |-> val]
    /\ UNCHANGED <<pc, star, planets, spacing_factor, n_sample, n_planets, i, hosts, panicked>>
    /\ UNCHANGED nameVars

GetNPlanets == pc = "done" /\ Returns("get_n_planets", 0, get_n_planets(System))

GetInnerLimit == pc = "done" /\ Returns("get_inner_limit", 0, get_inner_limit(System))

GetNthOrbitRadius ==
    /\ pc = "done"
    /\ \E n \in 0..MaxPlanets : Returns("get_nth_orbit_radius", n, get_nth_orbit_radius(System, n))

GetMass == pc = "done" /\ Returns("get_mass", 0, get_mass(System))

GetRadius ==
    /\ pc = "done"
    /\ IF last_is_some(System)
       THEN Returns("get_radius", 0, get_radius(System))
       ELSE /\ panicked' = TRUE
            /\ pc' = "panicked"
            /\ ret' = [op |-> "get_radius", arg |-> 0, val |-> 0]
            /\ UNCHANGED <<star, planets, spacing_factor, n_sample, n_planets, i, hosts>>
            /\ UNCHANGED nameVars

update_orbits(ps) == [k \in 1..Len(ps) |-> update_orbit_position(ps[k])]

UpdateOrbits ==
    /\ pc = "done"
    /\ planets' = update_orbits(planets)
    /\ ret' = [op |-> "update_orbits", arg |-> 0, val |-> 0]
    /\ UNCHANGED <<pc, star, spacing_factor, n_sample, n_planets, i, hosts, panicked>>
    /\ UNCHANGED nameVars

SysInit ==
    /\ pc = "start"
    /\ star = [mass |-> 1, radius |-> 1]
    /\ planets = <<>>
    /\ spacing_factor = 0
    /\ n_sample = 0
    /\ n_planets = 0
    /\ i = 0
    /\ hosts = <<>>
    /\ ret = NoCall
    /\ panicked = FALSE

\* ------------------------------------------------- constants::STAR_NAMES
Threads == 1..NThreads
Chars == {"a", "\n"}

RECURSIVE SeqsUpTo(_)
SeqsUpTo(n) == IF n = 0 THEN {<<>>}
               ELSE LET shorter == SeqsUpTo(n - 1)
                    IN shorter \cup {Append(q, c) : q \in shorter, c \in Chars}

\* What fs::read_to_string may find in the asset.
FileContents == SeqsUpTo(MaxFileLen)

\* str::split("\n") collected into a Vec: the pieces between separators,
\* empty pieces and the piece after a trailing separator included.
RECURSIVE split_from(_, _, _)
split_from(text, k, piece) ==
    IF k > Len(text) THEN <<piece>>
    ELSE IF text[k] = "\n" THEN <<piece>> \o split_from(text, k + 1, <<>>)
    ELSE split_from(text, k + 1, Append(piece, text[k]))

split(text) == split_from(text, 1, <<>>)

\* The OnceCell hands the initialisation to the one thread that finds it incomplete.
may_initialize_unguarded(state) == state \in {"incomplete", "running"}

may_initialize(state) == state = "incomplete"

Observe(t) ==
    /\ seen' = [seen EXCEPT ![t] = @ \cup {table}]
    /\ tpc' = [tpc EXCEPT ![t] = "done"]

\* Deref of the Lazy: the fast path reads a complete cell, otherwise the
\* thread goes on to initialise or to wait.
Access(t) ==
    /\ tpc[t] \in {"idle", "done"}
    /\ IF cell = "complete"
       THEN Observe(t)
       ELSE tpc' = [tpc EXCEPT ![t] = "slow"] /\ UNCHANGED seen
    /\ UNCHANGED <<cell, init_fn, table, init_runs>>
    /\ UNCHANGED sysVars

\* The slow path: one compare-and-swap on the cell's state.
Enter(t) ==
    /\ tpc[t] = "slow"
    /\ IF may_initialize(cell)
       THEN /\ cell' = "running"
            /\ tpc' = [tpc EXCEPT ![t] = "init"]
            /\ UNCHANGED seen
       ELSE IF cell = "complete"
       THEN Observe(t) /\ UNCHANGED cell
       ELSE /\ tpc' = [tpc EXCEPT ![t] = "wait"]
            /\ UNCHANGED <<cell, seen>>
    /\ UNCHANGED <<init_fn, table, init_runs>>
    /\ UNCHANGED sysVars

\* A waiting thread is woken when the running initialisation ends.
Wake(t) ==
    /\ tpc[t] = "wait"
    /\ cell # "running"
    /\ tpc' = [tpc EXCEPT ![t] = "slow"]
    /\ UNCHANGED <<cell, init_fn, table, seen, init_runs>>
    /\ UNCHANGED sysVars

\* The winner takes the init closure out of the Lazy; a Lazy whose closure
\* is gone is poisoned, and the access panics.
TakeInit(t) ==
    /\ tpc[t] = "init"
    /\ IF init_fn
       THEN /\ init_fn' = FALSE
            /\ init_runs' = init_runs + 1
            /\ tpc' = [tpc EXCEPT ![t] = "closure"]
            /\ UNCHANGED cell
       ELSE /\ tpc' = [tpc EXCEPT ![t] = "panicked"]
            /\ cell' = "incomplete"
            /\ UNCHANGED <<init_fn, init_runs>>
    /\ UNCHANGED <<table, seen>>
    /\ UNCHANGED sysVars

\* The closure: read the asset (unwrap panics when it cannot be read),
\* split it into lines, and store the lines in the cell.
RunClosure(t) ==
    /\ tpc[t] = "closure"
    /\ \/ \E text \in FileContents :
            /\ table' = split(text)
            /\ cell' = "complete"
            /\ tpc' = [tpc EXCEPT ![t] = "ready"]
       \/ /\ cell' = "incomplete"
          /\ tpc' = [tpc EXCEPT ![t] = "panicked"]
          /\ UNCHANGED table
    /\ UNCHANGED <<init_fn, seen, init_runs>>
    /\ UNCHANGED sysVars

\* The winner reads the value it has just stored.
Finish(t) ==
    /\ tpc[t] = "ready"
    /\ Observe(t)
    /\ UNCHANGED <<cell, init_fn, table, init_runs>>
    /\ UNCHANGED sysVars

NameInit ==
    /\ cell = "incomplete"
    /\ init_fn = TRUE
    /\ table = <<>>
    /\ tpc = [t \in Threads |-> "idle"]
    /\ seen = [t \in Threads |-> {}]
    /\ init_runs = 0

\* ------------------------------------------------------- specifications
Init == SysInit /\ NameInit

Next ==
    \/ GenerateBegin
    \/ GenerateLoop
    \/ GenerateEnd
    \/ GetNPlanets
    \/ GetInnerLimit
    \/ GetNthOrbitRadius
    \/ GetMass
    \/ GetRadius
    \/ UpdateOrbits

Spec == Init /\ [][Next]_vars

\* generate runs to completion once called: nothing blocks it.
FairSpec == Init /\ [][Next]_vars /\ WF_vars(Generate)

NameNext ==
    \E t \in Threads :
        \/ Access(t)
        \/ Enter(t)
        \/ Wake(t)
        \/ TakeInit(t)
        \/ RunClosure(t)
        \/ Finish(t)

NameSpec == Init /\ [][NameNext]_vars

\* ---------------------------------------------------------------- claims
RECURSIVE SumOfPlanetMasses(_)
SumOfPlanetMasses(ps) ==
    IF ps = <<>> THEN 0 ELSE Head(ps).mass + SumOfPlanetMasses(Tail(ps))

\* C1: whenever get_mass has just returned on a generated system (after any
\* number of update_orbits calls), the value is the star's mass plus the mass
\* of every planet of the sequence, each counted once.
C1_MassIsStarPlusPlanets ==
    ret.op = "get_mass" => ret.val = star.mass + SumOfPlanetMasses(planets)

C1_Witness ==
    /\ ret.op = "get_mass"
    /\ Len(planets) = MaxPlanets
    /\ planets[1].mass # planets[2].mass
    /\ \E k \in 1..Len(planets) : planets[k].orbit_position \notin StartPhases
    /\ ret.val = star.mass + SumOfPlanetMasses(planets)

\* C2: get_radius never panics, in particular not on a generated system
\* with zero planets.
C2_GetRadiusNeverPanics ==
    ret.op = "get_radius" => ~panicked

\* C3: in every generated system with at least two planets the orbit radii
\* are strictly increasing in sequence order, whatever spacing_factor was
\* sampled.
C3_OrbitRadiiStrictlyIncreasing ==
    pc = "done" =>
        \A k \in 1..(Len(planets) - 1) :
            planets[k].orbit_radius < planets[k + 1].orbit_radius

\* C4: get_nth_orbit_radius(n) does not fail; it returns 0 on a system without
\* planets and nth_orbit(orbit radius of planets[0], spacing_factor, n)
\* otherwise.
C4_NthOrbitRadiusGuarded ==
    ret.op = "get_nth_orbit_radius" =>
        /\ ~panicked
        /\ ret.val = IF planets = <<>> THEN 0
                     ELSE calculate_nth_orbit(planets[1].orbit_radius, spacing_factor, ret.arg)

C4_Witness ==
    /\ ret.op = "get_nth_orbit_radius"
    /\ pc = "done"
    /\ planets = <<>>
    /\ ret.arg = MaxPlanets
    /\ ret.val = 0
    /\ ~panicked

Frame(ps) ==
    [k \in 1..Len(ps) |->
        [mass |-> ps[k].mass, radius |-> ps[k].radius, orbit_radius |-> ps[k].orbit_radius]]

\* C5: once generate has finished, no step (so no sequence of update_orbits
\* calls) changes the number or order of the planets, a planet's mass, radius
\* or orbit_radius, the star, or spacing_factor.
C5_UpdateOrbitsFrame ==
    [][pc = "done" =>
        /\ Frame(planets') = Frame(planets)
        /\ star' = star
        /\ spacing_factor' = spacing_factor]_vars

C5_Witness ==
    /\ ret.op = "update_orbits"
    /\ Len(planets) = MaxPlanets
    /\ \E k \in 1..Len(planets) :
        /\ planets[k].angular_speed > 0
        /\ planets[k].orbit_position \notin StartPhases

C7_SingleInitialisation ==
    /\ init_runs <= 1
    /\ Cardinality({t \in Threads : tpc[t] \in {"init", "closure", "ready"}}) <= 1
    /\ \A t \in Threads :
        /\ seen[t] \subseteq {table}
        /\ seen[t] # {} => (cell = "complete" /\ init_runs = 1)
        /\ tpc[t] = "done" => seen[t] # {}

C7_Witness ==
    /\ \A t \in Threads : tpc[t] = "done" /\ seen[t] = {table}
    /\ Len(table) > 1
    /\ init_runs = 1

\* C8: during generate the host of the k-th Planet::generate call holds
\* exactly planets 0..k-1 of the system in insertion order, with the system's
\* star and spacing_factor; the system grows only at its end.
C8_HostIsSnapshot ==
    pc = "loop" =>
        /\ Len(hosts) = Len(planets)
        /\ \A k \in 1..Len(hosts) :
            hosts[k] = [star |-> star, planets |-> SubSeq(planets, 1, k - 1),
                        spacing_factor |-> spacing_factor]

C8_Witness ==
    /\ pc = "loop"
    /\ Len(hosts) = MaxPlanets
    /\ Len(hosts[MaxPlanets].planets) = MaxPlanets - 1
    /\ planets[1] # planets[2]

NonNegative(x) == IF x > 0 THEN x ELSE 0

\* C9: generate terminates, and the finished system holds max(0, trunc(sample))
\* planets: the integer c >= 0 with c <= max(0, sample) < c + 1.
C9_TerminatesWithTruncatedCount ==
    /\ <>(pc = "done")
    /\ [](pc = "done" =>
            /\ Len(planets) * Scale <= NonNegative(n_sample)
            /\ NonNegative(n_sample) < (Len(planets) + 1) * Scale)

C9_Witness ==
    /\ pc = "done"
    /\ n_sample < 0 - Scale
    /\ planets = <<>>

\* C10: on a generated system with at least one planet, get_nth_orbit_radius(k)
\* is the stored orbit radius of planets[k] for every k below the planet count,
\* get_nth_orbit_radius(0) is the inner limit, and get_radius() is
\* get_nth_orbit_radius(count - 1).
C10_NthOrbitMatchesStored ==
    /\ (pc = "done" /\ Len(planets) >= 1) =>
        /\ \A k \in 1..Len(planets) :
            get_nth_orbit_radius(System, k - 1) = planets[k].orbit_radius
        /\ get_nth_orbit_radius(System, 0) = get_inner_limit(System)
        /\ get_radius(System) = get_nth_orbit_radius(System, Len(planets) - 1)
    /\ (ret.op = "get_nth_orbit_radius" /\ ret.arg < Len(planets)) =>
        ret.val = planets[ret.arg + 1].orbit_radius
    /\ (ret.op = "get_radius" /\ ~panicked) =>
        ret.val = get_nth_orbit_radius(System, Len(planets) - 1)

C10_Witness ==
    /\ ret.op = "get_nth_orbit_radius"
    /\ Len(planets) = MaxPlanets
    /\ ret.arg = MaxPlanets - 1
    /\ ret.val = planets[MaxPlanets].orbit_radius
    /\ ret.val > planets[1].orbit_radius
    /\ \E k \in 1..Len(planets) : planets[k].orbit_position \notin StartPhases

====
